---- MODULE Spec2Model ----
(***************************************************************************)
(* jemalloc-ctl: the typed layer over jemalloc's mallctl interface.        *)
(*                                                                         *)
(* The layer's own code (src/src/lib.rs, stats.rs, thread.rs, ...) is      *)
(* modelled operator by operator: cvt, name_to_mib, get_mib, get, set_mib, *)
(* set, get_set_mib, get_set and the accessors built on them.  The foreign *)
(* allocator (the three extern functions of jemalloc_sys and the malloc /  *)
(* free the process performs) is the environment: its registry, its epoch  *)
(* and its per-thread counters are modelled from the documentation of the  *)
(* accessors and from the description of the foreign boundary.             *)
(***************************************************************************)
EXTENDS Integers, Sequences, FiniteSets, TLC

(***************************************************************************)
(* Bounds of the model.                                                    *)
(***************************************************************************)
\* The epoch counter is a u64; advances are enabled while it is below this.
MaxEpoch == 3
\* A thread allocates while its ever-allocated counter stays within this
\* (the unit of every size is one megabyte).
MaxCount == 1
\* Largest value a caller passes to set_max_background_threads.
MaxBgArg == 2
\* Largest constant tried as the value an epoch advance writes.
MaxWritten == 2
\* Longest handle buffer handed to name_to_mib.
MaxMibLen == 3

Threads == {"A", "B"}
\* Sizes of the allocations the process performs, in megabytes.
AllocSizes == {1, 2}

(***************************************************************************)
(* Platform error numbers the allocator reports.                           *)
(***************************************************************************)
EPERM == 1
ENOENT == 2
EAGAIN == 11
EFAULT == 14
EINVAL == 22

\* What the environment can make a foreign call do besides its documented
\* behaviour: nothing (0), or fail before touching anything (EAGAIN: the
\* allocator could not initialise); a write that starts or stops worker
\* threads can also fail to do so (EFAULT).
\* A resolve call can also find the key absent from the linked build (ENOENT).
Injected == {0, EAGAIN}
InjectedOnResolve == {0, EAGAIN, ENOENT}
InjectedOnWrite == {0, EAGAIN, EFAULT}

(***************************************************************************)
(* Key paths.  A path is the sequence of its dotted components together    *)
(* with whether the byte string ends with the null terminator.             *)
(***************************************************************************)
CStr(comps) == [comps |-> comps, nul |-> TRUE]

VERSION == CStr(<<"version">>)
EPOCH == CStr(<<"epoch">>)
BACKGROUND_THREAD == CStr(<<"background_thread">>)
MAX_BACKGROUND_THREADS == CStr(<<"max_background_threads">>)
STATS_ALLOCATED == CStr(<<"stats", "allocated">>)
STATS_ACTIVE == CStr(<<"stats", "active">>)
STATS_METADATA == CStr(<<"stats", "metadata">>)
STATS_RESIDENT == CStr(<<"stats", "resident">>)
STATS_MAPPED == CStr(<<"stats", "mapped">>)
THREAD_ALLOCATEDP == CStr(<<"thread", "allocatedp">>)
THREAD_DEALLOCATEDP == CStr(<<"thread", "deallocatedp">>)
MALLOC_CONF == CStr(<<"config", "malloc_conf">>)
arenas_NARENAS == CStr(<<"arenas", "narenas">>)
ABORT == CStr(<<"opt", "abort">>)
DSS == CStr(<<"opt", "dss">>)
opt_NARENAS == CStr(<<"opt", "narenas">>)
JUNK == CStr(<<"opt", "junk">>)
ZERO == CStr(<<"opt", "zero">>)
TCACHE == CStr(<<"opt", "tcache">>)
LG_TCACHE_MAX == CStr(<<"opt", "lg_tcache_max">>)

(***************************************************************************)
(* Rust-side value types and their sizes on the 64-bit target.             *)
(***************************************************************************)
SizeOf(ty) ==
    CASE ty = "bool" -> 1
      [] ty = "c_uint" -> 4
      [] ty = "u64" -> 8
      [] ty = "usize" -> 8
      [] ty = "ptr" -> 8

\* The content of a buffer the foreign call did not (fully) write.
Uninit == "uninit"

(***************************************************************************)
(* The allocator's registry (environment).                                 *)
(***************************************************************************)
\* The registry tree: the node index of every component of every key.
CtlMib(comps) ==
    CASE comps = <<"version">> -> <<0>>
      [] comps = <<"epoch">> -> <<1>>
      [] comps = <<"background_thread">> -> <<2>>
      [] comps = <<"max_background_threads">> -> <<3>>
      [] comps = <<"thread", "allocatedp">> -> <<4, 0>>
      [] comps = <<"thread", "deallocatedp">> -> <<4, 1>>
      [] comps = <<"config", "malloc_conf">> -> <<5, 0>>
      [] comps = <<"opt", "abort">> -> <<6, 0>>
      [] comps = <<"opt", "dss">> -> <<6, 1>>
      [] comps = <<"opt", "narenas">> -> <<6, 2>>
      [] comps = <<"opt", "junk">> -> <<6, 3>>
      [] comps = <<"opt", "zero">> -> <<6, 4>>
      [] comps = <<"opt", "tcache">> -> <<6, 5>>
      [] comps = <<"opt", "lg_tcache_max">> -> <<6, 6>>
      [] comps = <<"arenas", "narenas">> -> <<7, 0>>
      [] comps = <<"stats", "allocated">> -> <<8, 0>>
      [] comps = <<"stats", "active">> -> <<8, 1>>
      [] comps = <<"stats", "metadata">> -> <<8, 2>>
      [] comps = <<"stats", "resident">> -> <<8, 3>>
      [] comps = <<"stats", "mapped">> -> <<8, 4>>
      [] OTHER -> <<>>

CtlKeys ==
    { <<"version">>, <<"epoch">>, <<"background_thread">>,
      <<"max_background_threads">>, <<"thread", "allocatedp">>,
      <<"thread", "deallocatedp">>, <<"config", "malloc_conf">>,
      <<"opt", "abort">>, <<"opt", "dss">>, <<"opt", "narenas">>,
      <<"opt", "junk">>, <<"opt", "zero">>, <<"opt", "tcache">>,
      <<"opt", "lg_tcache_max">>, <<"arenas", "narenas">>,
      <<"stats", "allocated">>, <<"stats", "active">>,
      <<"stats", "metadata">>, <<"stats", "resident">>,
      <<"stats", "mapped">> }

\* No key: what a lookup of an unknown name or handle finds.
NoKey == <<>>

\* The registry read backwards: from a complete handle to its key.
CtlByMib ==
    [m \in {CtlMib(k) : k \in CtlKeys} |-> CHOOSE k \in CtlKeys : CtlMib(k) = m]

\* The key a handle addresses.
CtlKeyOfMib(mib) == IF mib \in DOMAIN CtlByMib THEN CtlByMib[mib] ELSE NoKey

\* The key a path names.
CtlKeyOfName(name) ==
    IF name.nul /\ name.comps \in CtlKeys THEN name.comps ELSE NoKey

VARIABLES
    alloc,      \* the allocator's control state: epoch, cached statistics, settings
    blocks,     \* blocks[t]: size of the block thread t holds, 0 when it holds none
    tcount,     \* tcount[t]: thread t's ever-allocated / ever-deallocated byte counters
    handles,    \* handles[k]: the handle stored in the accessor of kind k
    copies,     \* copies[t][k]: the handle in thread t's copy of that accessor,
                \* <<>> while t has taken no copy
    held,       \* held[t]: the ThreadLocal values thread t holds, each with the
                \* thread that obtained it
    ret,        \* the last step: the call, the foreign status, what the caller got
    adv,        \* observer: each thread's last two successful epoch advances
    scen,       \* observer: a statistics reading, an allocation, an advance, a reading
    lastSet     \* observer: the value of the last successful set of each read-write key

vars == <<alloc, blocks, tcount, handles, copies, held, ret, adv, scen, lastSet>>

(***************************************************************************)
(* The allocator's side of the foreign boundary (environment).             *)
(***************************************************************************)
\* Bytes the application holds right now.
RECURSIVE SumOver(_, _)
SumOver(f, S) ==
    IF S = {} THEN 0
    ELSE LET x == CHOOSE y \in S : TRUE IN f[x] + SumOver(f, S \ {x})

LiveBytes == SumOver(blocks, Threads)

\* Bytes the allocator uses for its own bookkeeping.
MetaBytes == 1

\* The value type of each key's slot.
SlotType(key) ==
    CASE key = <<"epoch">> -> "u64"
      [] key \in {<<"background_thread">>, <<"opt", "abort">>,
                  <<"opt", "zero">>, <<"opt", "tcache">>} -> "bool"
      [] key \in {<<"opt", "narenas">>, <<"arenas", "narenas">>} -> "c_uint"
      [] key \in {<<"version">>, <<"config", "malloc_conf">>, <<"opt", "dss">>,
                  <<"opt", "junk">>, <<"thread", "allocatedp">>,
                  <<"thread", "deallocatedp">>} -> "ptr"
      [] OTHER -> "usize"

\* The statistics are snapshots: each reads the totals taken at the last refresh.
StatValue(key, cached) ==
    CASE key = <<"stats", "allocated">> -> cached
      [] key = <<"stats", "active">> -> cached
      [] key = <<"stats", "metadata">> -> MetaBytes
      [] key = <<"stats", "resident">> -> cached + MetaBytes
      [] key = <<"stats", "mapped">> -> cached + MetaBytes

\* A refresh: the epoch moves on by one and the snapshots are retaken.
CtlRefresh(a) == [a EXCEPT !.epoch = @ + 1, !.cached = LiveBytes]

\* The address of thread t's counter.
CounterPtr(t, field) == [thread |-> t, field |-> field]

\* The options the process started with and the arenas it has now.
OptNArenas == 4
ArenasNArenas == 5
OptLgTcacheMax == 15
OptAbort == FALSE
OptZero == FALSE
OptTcache == TRUE

\* The byte the allocator keeps for a C bool: 1 for true, 0 for false.
CBool(b) == IF b THEN 1 ELSE 0

\* The address of the static string behind a string key.
StrPtr(key) == [str |-> key]
StrKeys == {<<"version">>, <<"config", "malloc_conf">>, <<"opt", "dss">>,
            <<"opt", "junk">>}

\* The value a read of the key's slot yields for calling thread t in state a.
SlotValue(a, t, key) ==
    CASE key = <<"epoch">> -> a.epoch
      [] key = <<"background_thread">> -> CBool(a.background_thread)
      [] key = <<"max_background_threads">> -> a.max_background_threads
      [] key = <<"thread", "allocatedp">> -> CounterPtr(t, "allocated")
      [] key = <<"thread", "deallocatedp">> -> CounterPtr(t, "deallocated")
      [] key \in {<<"stats", "allocated">>, <<"stats", "active">>,
                  <<"stats", "metadata">>, <<"stats", "resident">>,
                  <<"stats", "mapped">>} -> StatValue(key, a.cached)
      [] key = <<"opt", "narenas">> -> OptNArenas
      [] key = <<"arenas", "narenas">> -> ArenasNArenas
      [] key = <<"opt", "lg_tcache_max">> -> OptLgTcacheMax
      [] key = <<"opt", "abort">> -> CBool(OptAbort)
      [] key = <<"opt", "zero">> -> CBool(OptZero)
      [] key = <<"opt", "tcache">> -> CBool(OptTcache)
      [] key \in StrKeys -> StrPtr(key)

\* Number of worker threads the allocator accepts as a limit.
NCpus == 1

\* A request of the access call: the read side (oldp, *oldlenp) and the write
\* side (newp, newlen).  oldinit is what the read buffer holds before the call.
\* The arguments of an access call: oldp/oldlenp and newp/newlen. `alias`
\* says that oldp and newp are the same address.
Request(rd, oldinit, oldlen, wr, newval, newlen) ==
    [rd |-> rd, oldinit |-> oldinit, oldlen |-> oldlen,
     wr |-> wr, newval |-> newval, newlen |-> newlen, alias |-> FALSE]

\* A call handed one buffer, holding `value`, as both oldp and newp.
Exchange(value, len) ==
    [rd |-> TRUE, oldinit |-> value, oldlen |-> len,
     wr |-> TRUE, newval |-> value, newlen |-> len, alias |-> TRUE]

\* What a handler finds at newp once its read half has answered with r: the
\* value it copied out itself when the two buffers are one.
NewAfterRead(req, r) == IF req.alias THEN r.oldval ELSE req.newval

Reply(status, oldval, oldlen, st) ==
    [status |-> status, oldval |-> oldval, oldlen |-> oldlen, st |-> st]

\* The foreign calls, as the allocator's side sees them arrive: which of the
\* three functions, what it was addressed by, and which sides were populated.
ByName(name, req) ==
    [fn |-> "mallctl", to |-> name.comps, nul |-> name.nul, rd |-> req.rd,
     wr |-> req.wr, oldlen |-> req.oldlen, newlen |-> req.newlen,
     new |-> req.newval]
ByMib(mib, req) ==
    [fn |-> "mallctlbymib", to |-> mib, rd |-> req.rd, wr |-> req.wr,
     oldlen |-> req.oldlen, newlen |-> req.newlen, new |-> req.newval]
NameToMib(name) ==
    [fn |-> "mallctlnametomib", to |-> name.comps, nul |-> name.nul, rd |-> FALSE,
     wr |-> FALSE, oldlen |-> 0, newlen |-> 0, new |-> Uninit]

\* A handler's reply together with the call it answers.
Arrived(call, r) == r @@ [call |-> call]

\* The read half of a handler: copies the value out when the declared length
\* is the slot's size, and reports EINVAL after a short copy otherwise.
CtlRead(ty, v, req, st) ==
    IF ~req.rd THEN Reply(0, req.oldinit, req.oldlen, st)
    ELSE IF req.oldlen # SizeOf(ty)
         THEN Reply(EINVAL, Uninit,
                    IF req.oldlen < SizeOf(ty) THEN req.oldlen ELSE SizeOf(ty), st)
         ELSE Reply(0, v, req.oldlen, st)

\* "epoch": a write of any value refreshes, then the read returns the epoch.
epoch_ctl(a, t, req, inj) ==
    IF req.wr /\ req.newlen # SizeOf("u64")
    THEN Reply(EINVAL, req.oldinit, req.oldlen, a)
    ELSE CtlRead("u64",
                 IF req.wr THEN CtlRefresh(a).epoch ELSE a.epoch,
                 req,
                 IF req.wr THEN CtlRefresh(a) ELSE a)

\* "background_thread": reads the state, then a write of a different state
\* records it and starts or stops the workers; when that fails the new state
\* stays.
background_thread_ctl(a, t, req, inj) ==
    IF req.wr /\ req.newlen # SizeOf("bool")
    THEN Reply(EINVAL, req.oldinit, req.oldlen, a)
    ELSE LET r == CtlRead("bool", CBool(a.background_thread), req, a)
         IN  IF r.status # 0 \/ ~req.wr THEN r
             ELSE IF (NewAfterRead(req, r) # 0) = a.background_thread
                  THEN Reply(0, r.oldval, r.oldlen, a)
             ELSE Reply(IF inj = EFAULT THEN EFAULT ELSE 0, r.oldval, r.oldlen,
                        [a EXCEPT !.background_thread = (NewAfterRead(req, r) # 0)])

\* "max_background_threads": a write above the limit is refused; running
\* workers are stopped around the change, and stay stopped when that fails.
max_background_threads_ctl(a, t, req, inj) ==
    IF req.wr /\ req.newlen # SizeOf("usize")
    THEN Reply(EINVAL, req.oldinit, req.oldlen, a)
    ELSE LET r == CtlRead("usize", a.max_background_threads, req, a)
         IN  IF r.status # 0 \/ ~req.wr THEN r
             ELSE IF NewAfterRead(req, r) = a.max_background_threads
                  THEN Reply(0, r.oldval, r.oldlen, a)
             ELSE IF NewAfterRead(req, r) > NCpus
                  THEN Reply(EINVAL, r.oldval, r.oldlen, a)
             ELSE IF inj = EFAULT /\ a.background_thread
                  THEN Reply(EFAULT, r.oldval, r.oldlen,
                             [a EXCEPT !.background_thread = FALSE])
             ELSE Reply(0, r.oldval, r.oldlen,
                        [a EXCEPT !.max_background_threads = NewAfterRead(req, r)])

\* Every other key is read-only.
readonly_ctl(a, t, key, req, inj) ==
    IF req.wr \/ req.newlen # 0
    THEN Reply(EPERM, req.oldinit, req.oldlen, a)
    ELSE CtlRead(SlotType(key), SlotValue(a, t, key), req, a)

\* The handler of a key, run for calling thread t.
ctl(a, t, key, req, inj) ==
    CASE key = <<"epoch">> -> epoch_ctl(a, t, req, inj)
      [] key = <<"background_thread">> -> background_thread_ctl(a, t, req, inj)
      [] key = <<"max_background_threads">> ->
            max_background_threads_ctl(a, t, req, inj)
      [] OTHER -> readonly_ctl(a, t, key, req, inj)

\* The handle buffer after the resolve call wrote `written` into [0; n].
MibBuf(written, n) ==
    [i \in 1..n |-> IF i <= Len(written) THEN written[i] ELSE 0]

\* mallctlnametomib(name, mibp, miblenp): writes at most miblen components of
\* the key's handle and sets the length to the number it wrote.
mallctlnametomib(name, miblen, inj) ==
    IF inj = EAGAIN
    THEN [status |-> EAGAIN, mib |-> <<>>, miblen |-> miblen, call |-> NameToMib(name)]
    ELSE IF inj = ENOENT \/ CtlKeyOfName(name) = NoKey
         THEN [status |-> ENOENT, mib |-> <<>>, miblen |-> miblen,
               call |-> NameToMib(name)]
    ELSE LET full == CtlMib(CtlKeyOfName(name))
         IN  IF miblen >= Len(full)
             THEN [status |-> 0, mib |-> full, miblen |-> Len(full),
                   call |-> NameToMib(name)]
             ELSE [status |-> 0, mib |-> SubSeq(full, 1, miblen), miblen |-> miblen,
                   call |-> NameToMib(name)]

\* mallctlbymib(mib, miblen, oldp, oldlenp, newp, newlen), called on thread t.
mallctlbymib(t, mib, miblen, req, inj) ==
    Arrived(ByMib(SubSeq(mib, 1, miblen), req),
            IF inj = EAGAIN THEN Reply(EAGAIN, req.oldinit, req.oldlen, alloc)
            ELSE IF CtlKeyOfMib(SubSeq(mib, 1, miblen)) = NoKey
                 THEN Reply(ENOENT, req.oldinit, req.oldlen, alloc)
            ELSE ctl(alloc, t, CtlKeyOfMib(SubSeq(mib, 1, miblen)), req, inj))

\* mallctl(name, oldp, oldlenp, newp, newlen), called on thread t.
mallctl(t, name, req, inj) ==
    Arrived(ByName(name, req),
            IF inj = EAGAIN THEN Reply(EAGAIN, req.oldinit, req.oldlen, alloc)
            ELSE IF CtlKeyOfName(name) = NoKey
                 THEN Reply(ENOENT, req.oldinit, req.oldlen, alloc)
            ELSE ctl(alloc, t, CtlKeyOfName(name), req, inj))

(***************************************************************************)
(* The typed primitive layer (src/src/lib.rs).                             *)
(***************************************************************************)
Unit == "()"
\* io::Result: Ok(v), an OS error carrying a code, or the unwinding of a
\* failed debug assertion.
Ok(v) == [kind |-> "Ok", val |-> v, code |-> 0]
Err(c) == [kind |-> "Os", val |-> Unit, code |-> c]
Panicked == [kind |-> "Panic", val |-> Unit, code |-> 0]

\* What a primitive hands back: its result, the allocator state the foreign
\* call left, and the status the foreign call returned.
\* `calls` lists the foreign calls the primitive made, in order.
Outcome(res, st, status, calls) ==
    [res |-> res, st |-> st, status |-> status, calls |-> calls]

\* cvt that reports every failure as the same generic code.
cvt_Remapped(r) == IF r = 0 THEN Ok(Unit) ELSE Err(EPERM)
cvt(r) == IF r = 0 THEN Ok(Unit) ELSE Err(r)

\* A value of type T as the bytes of the buffer handed to the allocator, and
\* the buffer read back as a T. A bool is the byte 1 or 0; a buffer holding
\* any other byte is not a bool at all (the allocator writes none such). The
\* integers and pointers are copied as they are, both sides being one process.
ToBytes(ty, v) == IF ty = "bool" THEN (IF v THEN 1 ELSE 0) ELSE v
\* A bool buffer read with the two bytes' meanings swapped.
FromBytes_Swapped(ty, x) == IF ty = "bool" THEN x = 0 ELSE x
FromBytes(ty, x) ==
    IF ty = "bool"
    THEN (IF x = 1 THEN TRUE ELSE IF x = 0 THEN FALSE ELSE [invalid_bool |-> x])
    ELSE x

\* debug_assert_eq!(x, y) in a build with (dbg) or without debug assertions.
debug_assert_eq(dbg, x, y) == ~dbg \/ x = y

\* `len` is the local the resolve call updates; `mib` the caller's buffer.
name_to_mib(name, n, inj, dbg) ==
    LET f == mallctlnametomib(name, n, inj)
    IN  IF cvt(f.status).kind # "Ok"
        THEN [res |-> cvt(f.status), mib |-> MibBuf(<<>>, n), status |-> f.status,
              len |-> f.miblen, calls |-> <<f.call>>]
        ELSE IF ~debug_assert_eq(dbg, n, f.miblen)
             THEN [res |-> Panicked, mib |-> MibBuf(f.mib, n), status |-> f.status,
                   len |-> f.miblen, calls |-> <<f.call>>]
        ELSE [res |-> Ok(Unit), mib |-> MibBuf(f.mib, n), status |-> f.status,
              len |-> f.miblen, calls |-> <<f.call>>]

\* The tail shared by the reading primitives, over the foreign call's reply f:
\* `cvt(..)?; debug_assert_eq!(len, size_of::<T>()); Ok(value)`.
ReadBack(f, ty, dbg) ==
    IF cvt(f.status).kind # "Ok" THEN Outcome(cvt(f.status), f.st, f.status, <<f.call>>)
    ELSE IF ~debug_assert_eq(dbg, f.oldlen, SizeOf(ty))
         THEN Outcome(Panicked, f.st, f.status, <<f.call>>)
    ELSE Outcome(Ok(FromBytes(ty, f.oldval)), f.st, f.status, <<f.call>>)

\* The tail of the writing primitives: `cvt(..)`.
Converted(f) == Outcome(cvt(f.status), f.st, f.status, <<f.call>>)

\* get_mib that also populates the write side, with a zeroed value.
get_mib_WritingZero(t, mib, ty, inj, dbg) ==
    LET f == mallctlbymib(t, mib, Len(mib),
                          Request(TRUE, Uninit, SizeOf(ty), TRUE,
                                  0, SizeOf(ty)), inj)
    IN  IF cvt(f.status).kind # "Ok" THEN Outcome(cvt(f.status), f.st, f.status, <<f.call>>)
        ELSE Outcome(Ok(FromBytes(ty, f.oldval)), f.st, f.status, <<f.call>>)

\* get_mib handing the read buffer back whatever the call's status.
get_mib_Unchecked(t, mib, ty, inj, dbg) ==
    LET f == mallctlbymib(t, mib, Len(mib),
                          Request(TRUE, Uninit, SizeOf(ty), FALSE, Uninit, 0), inj)
    IN  Outcome(Ok(f.oldval), f.st, f.status, <<f.call>>)

get_mib(t, mib, ty, inj, dbg) ==
    ReadBack(mallctlbymib(t, mib, Len(mib),
             Request(TRUE, Uninit, SizeOf(ty), FALSE, Uninit, 0), inj),
             ty, dbg)

get(t, name, ty, inj, dbg) ==
    ReadBack(mallctl(t, name,
             Request(TRUE, Uninit, SizeOf(ty), FALSE, Uninit, 0), inj),
             ty, dbg)

\* set_mib handing the value over as the read buffer instead of the write buffer.
set_mib_AsRead(t, mib, ty, value, inj) ==
    Converted(mallctlbymib(t, mib, Len(mib),
              Request(TRUE, ToBytes(ty, value), SizeOf(ty), FALSE, Uninit, 0), inj))

set_mib(t, mib, ty, value, inj) ==
    Converted(mallctlbymib(t, mib, Len(mib),
              Request(FALSE, Uninit, 0, TRUE, ToBytes(ty, value), SizeOf(ty)), inj))

set(t, name, ty, value, inj) ==
    Converted(mallctl(t, name,
              Request(FALSE, Uninit, 0, TRUE, ToBytes(ty, value), SizeOf(ty)), inj))

\* get_set_mib with the write side left out of the call.
get_set_mib_NoWrite(t, mib, ty, value, inj, dbg) ==
    LET f == mallctlbymib(t, mib, Len(mib),
                          Request(TRUE, ToBytes(ty, value), SizeOf(ty), FALSE, Uninit, 0), inj)
    IN  IF cvt(f.status).kind # "Ok" THEN Outcome(cvt(f.status), f.st, f.status, <<f.call>>)
        ELSE Outcome(Ok(FromBytes(ty, f.oldval)), f.st, f.status, <<f.call>>)

\* The one buffer `value` is both the read and the write buffer.
get_set_mib(t, mib, ty, value, inj, dbg) ==
    ReadBack(mallctlbymib(t, mib, Len(mib), Exchange(ToBytes(ty, value), SizeOf(ty)), inj),
             ty, dbg)

\* get_set with a read buffer of its own beside the value.
get_set_SeparateBuffers(t, name, ty, value, inj, dbg) ==
    ReadBack(mallctl(t, name,
             Request(TRUE, Uninit, SizeOf(ty), TRUE, ToBytes(ty, value), SizeOf(ty)), inj),
             ty, dbg)

get_set(t, name, ty, value, inj, dbg) ==
    ReadBack(mallctl(t, name, Exchange(ToBytes(ty, value), SizeOf(ty)), inj),
             ty, dbg)

\* An io::Error of kind InvalidData, which carries no OS code.
InvalidData == [kind |-> "InvalidData", val |-> Unit, code |-> 0]

\* CStr::from_ptr: the bytes from the address up to the first NUL.
RECURSIVE UpToNul(_)
UpToNul(bytes) ==
    IF bytes = <<>> \/ Head(bytes) = 0 THEN <<>>
    ELSE <<Head(bytes)>> \o UpToNul(Tail(bytes))

CStr_from_ptr(mem, ptr) == UpToNul(mem[ptr])

\* A continuation byte within [lo, hi] at position i.
Cont(bytes, i, lo, hi) == i <= Len(bytes) /\ bytes[i] >= lo /\ bytes[i] <= hi

\* str::from_utf8's validity: well-formed sequences of one to four bytes,
\* no overlong forms, no surrogates, nothing above U+10FFFF.
RECURSIVE Utf8Valid(_)
Utf8Valid(bytes) ==
    IF bytes = <<>> THEN TRUE
    ELSE LET b == bytes[1]
             n == IF b < 128 THEN 1
                  ELSE IF b >= 194 /\ b <= 223 THEN 2
                  ELSE IF b >= 224 /\ b <= 239 THEN 3
                  ELSE IF b >= 240 /\ b <= 244 THEN 4
                  ELSE 0
             lo2 == IF b = 224 THEN 160 ELSE IF b = 240 THEN 144 ELSE 128
             hi2 == IF b = 237 THEN 159 ELSE IF b = 244 THEN 143 ELSE 191
         IN  /\ n # 0
             /\ n >= 2 => Cont(bytes, 2, lo2, hi2)
             /\ n >= 3 => Cont(bytes, 3, 128, 191)
             /\ n >= 4 => Cont(bytes, 4, 128, 191)
             /\ Utf8Valid(SubSeq(bytes, n + 1, Len(bytes)))

\* The &str over the bytes.
Str(bytes) == [text |-> bytes]

\* CStr::to_str().map_err(|e| io::Error::new(InvalidData, e))
to_str(cstr) == IF Utf8Valid(cstr) THEN Ok(Str(cstr)) ELSE InvalidData

\* get_str_mib that takes the bytes for text without validating them.
get_str_mib_Unvalidated(t, mib, mem, inj, dbg) ==
    LET o == get_mib(t, mib, "ptr", inj, dbg)
    IN  IF o.res.kind # "Ok" THEN o
        ELSE Outcome(Ok(Str(CStr_from_ptr(mem, o.res.val))), o.st, o.status, o.calls)

\* `mem` is the process memory the returned pointer leads into.
\* The tail of the string reads, over the pointer read's outcome o:
\* `let ptr = ..?; let cstr = CStr::from_ptr(ptr); cstr.to_str().map_err(..)`.
Borrowed(o, mem) ==
    IF o.res.kind # "Ok" THEN o
    ELSE Outcome(to_str(CStr_from_ptr(mem, o.res.val)), o.st, o.status, o.calls)

get_str_mib(t, mib, mem, inj, dbg) == Borrowed(get_mib(t, mib, "ptr", inj, dbg), mem)

get_str(t, name, mem, inj, dbg) == Borrowed(get(t, name, "ptr", inj, dbg), mem)

(***************************************************************************)
(* The accessors (src/src/lib.rs, stats.rs, thread.rs).                    *)
(***************************************************************************)
Kinds ==
    { "Epoch", "BackgroundThread", "MaxBackgroundThreads",
      "stats::Allocated", "stats::Active", "stats::Metadata",
      "stats::Resident", "stats::Mapped",
      "thread::Allocated", "thread::Deallocated" }

StatsKinds ==
    { "stats::Allocated", "stats::Active", "stats::Metadata",
      "stats::Resident", "stats::Mapped" }

\* The accessors of lib.rs (Version), config.rs, arenas.rs and opt.rs.
MoreKinds ==
    { "Version", "config::MallocConf", "arenas::NArenas",
      "opt::Abort", "opt::Dss", "opt::NArenas", "opt::Junk",
      "opt::Zero", "opt::Tcache", "opt::LgTcacheMax" }

AllKinds == Kinds \cup MoreKinds

\* new(): resolves the accessor's path into a zeroed buffer of its handle's length.
Epoch_new(inj, dbg) == name_to_mib(EPOCH, 1, inj, dbg)
BackgroundThread_new(inj, dbg) == name_to_mib(BACKGROUND_THREAD, 1, inj, dbg)
\* MaxBackgroundThreads::new resolving the neighbouring key's path.
MaxBackgroundThreads_new_WrongPath(inj, dbg) == name_to_mib(BACKGROUND_THREAD, 1, inj, dbg)
MaxBackgroundThreads_new(inj, dbg) == name_to_mib(MAX_BACKGROUND_THREADS, 1, inj, dbg)
stats_Allocated_new(inj, dbg) == name_to_mib(STATS_ALLOCATED, 2, inj, dbg)
\* stats::Active::new resolving the metadata statistic's path.
stats_Active_new_WrongPath(inj, dbg) == name_to_mib(STATS_METADATA, 2, inj, dbg)
stats_Active_new(inj, dbg) == name_to_mib(STATS_ACTIVE, 2, inj, dbg)
stats_Metadata_new(inj, dbg) == name_to_mib(STATS_METADATA, 2, inj, dbg)
stats_Resident_new(inj, dbg) == name_to_mib(STATS_RESIDENT, 2, inj, dbg)
stats_Mapped_new(inj, dbg) == name_to_mib(STATS_MAPPED, 2, inj, dbg)
thread_Allocated_new(inj, dbg) == name_to_mib(THREAD_ALLOCATEDP, 2, inj, dbg)
\* thread::Deallocated::new resolving the allocated counter's path.
thread_Deallocated_new_WrongPath(inj, dbg) == name_to_mib(THREAD_ALLOCATEDP, 2, inj, dbg)
thread_Deallocated_new(inj, dbg) == name_to_mib(THREAD_DEALLOCATEDP, 2, inj, dbg)
\* Version::new with a buffer one word longer than its path.
Version_new_LongBuffer(inj, dbg) == name_to_mib(VERSION, 2, inj, dbg)
Version_new(inj, dbg) == name_to_mib(VERSION, 1, inj, dbg)
config_MallocConf_new(inj, dbg) == name_to_mib(MALLOC_CONF, 2, inj, dbg)
arenas_NArenas_new(inj, dbg) == name_to_mib(arenas_NARENAS, 2, inj, dbg)
opt_Abort_new(inj, dbg) == name_to_mib(ABORT, 2, inj, dbg)
opt_Dss_new(inj, dbg) == name_to_mib(DSS, 2, inj, dbg)
opt_NArenas_new(inj, dbg) == name_to_mib(opt_NARENAS, 2, inj, dbg)
opt_Junk_new(inj, dbg) == name_to_mib(JUNK, 2, inj, dbg)
opt_Zero_new(inj, dbg) == name_to_mib(ZERO, 2, inj, dbg)
opt_Tcache_new(inj, dbg) == name_to_mib(TCACHE, 2, inj, dbg)
opt_LgTcacheMax_new(inj, dbg) == name_to_mib(LG_TCACHE_MAX, 2, inj, dbg)

NewOf(k, inj, dbg) ==
    CASE k = "Epoch" -> Epoch_new(inj, dbg)
      [] k = "BackgroundThread" -> BackgroundThread_new(inj, dbg)
      [] k = "MaxBackgroundThreads" -> MaxBackgroundThreads_new(inj, dbg)
      [] k = "stats::Allocated" -> stats_Allocated_new(inj, dbg)
      [] k = "stats::Active" -> stats_Active_new(inj, dbg)
      [] k = "stats::Metadata" -> stats_Metadata_new(inj, dbg)
      [] k = "stats::Resident" -> stats_Resident_new(inj, dbg)
      [] k = "stats::Mapped" -> stats_Mapped_new(inj, dbg)
      [] k = "thread::Allocated" -> thread_Allocated_new(inj, dbg)
      [] k = "thread::Deallocated" -> thread_Deallocated_new(inj, dbg)
      [] k = "Version" -> Version_new(inj, dbg)
      [] k = "config::MallocConf" -> config_MallocConf_new(inj, dbg)
      [] k = "arenas::NArenas" -> arenas_NArenas_new(inj, dbg)
      [] k = "opt::Abort" -> opt_Abort_new(inj, dbg)
      [] k = "opt::Dss" -> opt_Dss_new(inj, dbg)
      [] k = "opt::NArenas" -> opt_NArenas_new(inj, dbg)
      [] k = "opt::Junk" -> opt_Junk_new(inj, dbg)
      [] k = "opt::Zero" -> opt_Zero_new(inj, dbg)
      [] k = "opt::Tcache" -> opt_Tcache_new(inj, dbg)
      [] k = "opt::LgTcacheMax" -> opt_LgTcacheMax_new(inj, dbg)

\* new() hands out the accessor only past the `?`: the resolved buffer when
\* name_to_mib returned Ok, its failure otherwise.
Accessor_Unchecked(r) == Ok(r.mib)
Accessor(r) == IF r.res.kind = "Ok" THEN Ok(r.mib) ELSE r.res

\* The path each accessor type resolves.
PathOf(k) ==
    CASE k = "Epoch" -> EPOCH
      [] k = "BackgroundThread" -> BACKGROUND_THREAD
      [] k = "MaxBackgroundThreads" -> MAX_BACKGROUND_THREADS
      [] k = "stats::Allocated" -> STATS_ALLOCATED
      [] k = "stats::Active" -> STATS_ACTIVE
      [] k = "stats::Metadata" -> STATS_METADATA
      [] k = "stats::Resident" -> STATS_RESIDENT
      [] k = "stats::Mapped" -> STATS_MAPPED
      [] k = "thread::Allocated" -> THREAD_ALLOCATEDP
      [] k = "thread::Deallocated" -> THREAD_DEALLOCATEDP
      [] k = "Version" -> VERSION
      [] k = "config::MallocConf" -> MALLOC_CONF
      [] k = "arenas::NArenas" -> arenas_NARENAS
      [] k = "opt::Abort" -> ABORT
      [] k = "opt::Dss" -> DSS
      [] k = "opt::NArenas" -> opt_NARENAS
      [] k = "opt::Junk" -> JUNK
      [] k = "opt::Zero" -> ZERO
      [] k = "opt::Tcache" -> TCACHE
      [] k = "opt::LgTcacheMax" -> LG_TCACHE_MAX

\* The epoch: the free function and the accessor's method.
\* epoch() that only reads the epoch.
epoch_ReadOnly(t, inj, dbg) == get(t, EPOCH, "u64", inj, dbg)
epoch(t, inj, dbg) == get_set(t, EPOCH, "u64", 1, inj, dbg)
\* advance() that only reads the epoch.
Epoch_advance_ReadOnly(t, inj, dbg) == get_mib(t, handles["Epoch"], "u64", inj, dbg)
Epoch_advance(t, inj, dbg) == get_set_mib(t, handles["Epoch"], "u64", 1, inj, dbg)

\* background_thread
background_thread(t, inj, dbg) == get(t, BACKGROUND_THREAD, "bool", inj, dbg)
set_background_thread(t, v, inj) == set(t, BACKGROUND_THREAD, "bool", v, inj)
BackgroundThread_get(t, inj, dbg) ==
    get_mib(t, handles["BackgroundThread"], "bool", inj, dbg)
BackgroundThread_set(t, v, inj) ==
    set_mib(t, handles["BackgroundThread"], "bool", v, inj)

\* max_background_threads
max_background_threads(t, inj, dbg) == get(t, MAX_BACKGROUND_THREADS, "usize", inj, dbg)
set_max_background_threads(t, v, inj) == set(t, MAX_BACKGROUND_THREADS, "usize", v, inj)
MaxBackgroundThreads_get(t, inj, dbg) ==
    get_mib(t, handles["MaxBackgroundThreads"], "usize", inj, dbg)
\* MaxBackgroundThreads::set writing through the epoch's handle.
MaxBackgroundThreads_set_EpochHandle(t, v, inj) ==
    set_mib(t, handles["Epoch"], "usize", v, inj)
MaxBackgroundThreads_set(t, v, inj) ==
    set_mib(t, handles["MaxBackgroundThreads"], "usize", v, inj)

\* stats::*::get
stats_Allocated_get(t, inj, dbg) == get_mib(t, handles["stats::Allocated"], "usize", inj, dbg)
stats_Active_get(t, inj, dbg) == get_mib(t, handles["stats::Active"], "usize", inj, dbg)
stats_Metadata_get(t, inj, dbg) == get_mib(t, handles["stats::Metadata"], "usize", inj, dbg)
stats_Resident_get(t, inj, dbg) == get_mib(t, handles["stats::Resident"], "usize", inj, dbg)
stats_Mapped_get(t, inj, dbg) == get_mib(t, handles["stats::Mapped"], "usize", inj, dbg)

stats_get(k, t, inj, dbg) ==
    CASE k = "stats::Allocated" -> stats_Allocated_get(t, inj, dbg)
      [] k = "stats::Active" -> stats_Active_get(t, inj, dbg)
      [] k = "stats::Metadata" -> stats_Metadata_get(t, inj, dbg)
      [] k = "stats::Resident" -> stats_Resident_get(t, inj, dbg)
      [] k = "stats::Mapped" -> stats_Mapped_get(t, inj, dbg)

\* version, config::malloc_conf, arenas::narenas and the opt keys
version(t, mem, inj, dbg) == get_str(t, VERSION, mem, inj, dbg)
\* Version::get resolving the path again instead of using its handle.
Version_get_Resolving(t, mem, inj, dbg) == get_str(t, VERSION, mem, inj, dbg)
Version_get(t, mem, inj, dbg) == get_str_mib(t, handles["Version"], mem, inj, dbg)
config_malloc_conf(t, mem, inj, dbg) == get_str(t, MALLOC_CONF, mem, inj, dbg)
config_MallocConf_get(t, mem, inj, dbg) ==
    get_str_mib(t, handles["config::MallocConf"], mem, inj, dbg)
arenas_narenas(t, inj, dbg) == get(t, arenas_NARENAS, "c_uint", inj, dbg)
\* arenas::NArenas::get reading through the handle of opt::NArenas.
arenas_NArenas_get_OptHandle(t, inj, dbg) ==
    get_mib(t, handles["opt::NArenas"], "c_uint", inj, dbg)
arenas_NArenas_get(t, inj, dbg) ==
    get_mib(t, handles["arenas::NArenas"], "c_uint", inj, dbg)
opt_abort(t, inj, dbg) == get(t, ABORT, "bool", inj, dbg)
opt_Abort_get(t, inj, dbg) == get_mib(t, handles["opt::Abort"], "bool", inj, dbg)
opt_dss(t, mem, inj, dbg) == get_str(t, DSS, mem, inj, dbg)
opt_Dss_get(t, mem, inj, dbg) == get_str_mib(t, handles["opt::Dss"], mem, inj, dbg)
opt_narenas(t, inj, dbg) == get(t, opt_NARENAS, "c_uint", inj, dbg)
opt_NArenas_get(t, inj, dbg) == get_mib(t, handles["opt::NArenas"], "c_uint", inj, dbg)
opt_junk(t, mem, inj, dbg) == get_str(t, JUNK, mem, inj, dbg)
opt_Junk_get(t, mem, inj, dbg) == get_str_mib(t, handles["opt::Junk"], mem, inj, dbg)
opt_zero(t, inj, dbg) == get(t, ZERO, "bool", inj, dbg)
opt_Zero_get(t, inj, dbg) == get_mib(t, handles["opt::Zero"], "bool", inj, dbg)
opt_tcache(t, inj, dbg) == get(t, TCACHE, "bool", inj, dbg)
opt_Tcache_get(t, inj, dbg) == get_mib(t, handles["opt::Tcache"], "bool", inj, dbg)
opt_lg_tcache_max(t, inj, dbg) == get(t, LG_TCACHE_MAX, "usize", inj, dbg)
opt_LgTcacheMax_get(t, inj, dbg) ==
    get_mib(t, handles["opt::LgTcacheMax"], "usize", inj, dbg)

\* The accessors that return text, and the others among MoreKinds.
StrKinds == {"Version", "config::MallocConf", "opt::Dss", "opt::Junk"}
ValueKinds == MoreKinds \ StrKinds

\* get() of the accessor type k, and the function of the same key.
value_get(k, t, inj, dbg) ==
    CASE k = "arenas::NArenas" -> arenas_NArenas_get(t, inj, dbg)
      [] k = "opt::Abort" -> opt_Abort_get(t, inj, dbg)
      [] k = "opt::NArenas" -> opt_NArenas_get(t, inj, dbg)
      [] k = "opt::Zero" -> opt_Zero_get(t, inj, dbg)
      [] k = "opt::Tcache" -> opt_Tcache_get(t, inj, dbg)
      [] k = "opt::LgTcacheMax" -> opt_LgTcacheMax_get(t, inj, dbg)

value_fn(k, t, inj, dbg) ==
    CASE k = "arenas::NArenas" -> arenas_narenas(t, inj, dbg)
      [] k = "opt::Abort" -> opt_abort(t, inj, dbg)
      [] k = "opt::NArenas" -> opt_narenas(t, inj, dbg)
      [] k = "opt::Zero" -> opt_zero(t, inj, dbg)
      [] k = "opt::Tcache" -> opt_tcache(t, inj, dbg)
      [] k = "opt::LgTcacheMax" -> opt_lg_tcache_max(t, inj, dbg)

str_get(k, t, mem, inj, dbg) ==
    CASE k = "Version" -> Version_get(t, mem, inj, dbg)
      [] k = "config::MallocConf" -> config_MallocConf_get(t, mem, inj, dbg)
      [] k = "opt::Dss" -> opt_Dss_get(t, mem, inj, dbg)
      [] k = "opt::Junk" -> opt_Junk_get(t, mem, inj, dbg)

str_fn(k, t, mem, inj, dbg) ==
    CASE k = "Version" -> version(t, mem, inj, dbg)
      [] k = "config::MallocConf" -> config_malloc_conf(t, mem, inj, dbg)
      [] k = "opt::Dss" -> opt_dss(t, mem, inj, dbg)
      [] k = "opt::Junk" -> opt_junk(t, mem, inj, dbg)

\* ThreadLocal(ptr): the wrapper around the pointer the allocator handed out.
ThreadLocal(o) ==
    IF o.res.kind = "Ok" THEN Outcome(Ok([ptr |-> o.res.val]), o.st, o.status, o.calls) ELSE o

\* thread::Allocated::get fetching the pointer once, on one thread, for all.
thread_Allocated_get_Shared(t, inj, dbg) ==
    ThreadLocal(get_mib("A", handles["thread::Allocated"], "ptr", inj, dbg))

\* thread::Allocated::get / thread::Deallocated::get, called on thread t.
thread_Allocated_get(t, inj, dbg) ==
    ThreadLocal(get_mib(t, handles["thread::Allocated"], "ptr", inj, dbg))
thread_Deallocated_get(t, inj, dbg) ==
    ThreadLocal(get_mib(t, handles["thread::Deallocated"], "ptr", inj, dbg))

\* ThreadLocal::get: the value at the pointer.
ThreadLocal_get(tl) == tcount[tl.ptr.thread][tl.ptr.field]

\* Whether a value of the type may be moved to another thread: the accessors
\* are plain arrays of usize; ThreadLocal wraps a *const T.
\* Every type declared Send.
IsSend_Everything(ty) == TRUE
IsSend(ty) == ty # "ThreadLocal"

(***************************************************************************)
(* The state machine.                                                      *)
(***************************************************************************)
\* The caller recorded for a call that behaves the same on every thread.
AnyThread == "any"

\* What `ret` records of a call that reached the foreign boundary ...
Returned(op, t, o) ==
    [op |-> op, by |-> t, status |-> o.status, res |-> o.res, calls |-> o.calls]
\* ... and of a step that made no foreign call.
Stepped(op, t, v) ==
    [op |-> op, by |-> t, status |-> -1, res |-> Ok(v), calls |-> <<>>]

NoAdvance == [n |-> 0, prev |-> 0, last |-> 0, between |-> FALSE, since |-> FALSE]
NoScenario == [phase |-> "idle", k |-> "", a |-> 0, fresh |-> FALSE]
NotSet == [set |-> FALSE, v |-> Unit, via |-> ""]

Init ==
    /\ alloc = [epoch |-> 0, cached |-> 0, background_thread |-> FALSE,
                max_background_threads |-> NCpus]
    /\ blocks = [t \in Threads |-> 0]
    /\ tcount = [t \in Threads |-> [allocated |-> 0, deallocated |-> 0]]
    /\ handles = [k \in AllKinds |-> NewOf(k, 0, TRUE).mib]
    /\ copies = [t \in Threads |-> [k \in AllKinds |-> <<>>]]
    /\ held = [t \in Threads |-> {}]
    /\ ret = Stepped(<<"process", "start">>, AnyThread, Unit)
    /\ adv = [t \in Threads |-> NoAdvance]
    /\ scen = NoScenario
    /\ lastSet = [k \in {"background_thread", "max_background_threads"} |-> NotSet]

\* A call whose only effect is on the allocator.
Call(op, o) ==
    \E out \in {o} :
        /\ alloc' = out.st
        /\ ret' = Returned(op, AnyThread, out)
        /\ UNCHANGED <<blocks, tcount, handles, copies, held>>

\* new(): the accessor it returns replaces the one of its type held so far.
Constructed(k, r) ==
    /\ handles' = IF Accessor(r).kind = "Ok"
                  THEN [handles EXCEPT ![k] = Accessor(r).val]
                  ELSE handles
    /\ ret' = [op |-> <<k, "new">>, by |-> AnyThread, status |-> r.status,
               res |-> Accessor(r), calls |-> r.calls]
    /\ UNCHANGED <<alloc, blocks, tcount, held, copies>>

New(k) ==
    \E inj \in Injected, dbg \in BOOLEAN : Constructed(k, NewOf(k, inj, dbg))

\* new() against a build of the allocator that lacks the key.
NewAbsent(k) ==
    \E dbg \in BOOLEAN : Constructed(k, NewOf(k, ENOENT, dbg))

EpochFn(t) ==
    /\ alloc.epoch < MaxEpoch
    /\ \E inj \in Injected, dbg \in BOOLEAN :
          Call(<<"fn", "epoch">>, epoch(t, inj, dbg))

EpochAdvance(t) ==
    /\ alloc.epoch < MaxEpoch
    /\ \E inj \in Injected, dbg \in BOOLEAN :
          Call(<<"Epoch", "advance">>, Epoch_advance(t, inj, dbg))

BackgroundThreadFn(t) ==
    \E inj \in Injected, dbg \in BOOLEAN :
        Call(<<"fn", "background_thread">>, background_thread(t, inj, dbg))

SetBackgroundThreadFn(t) ==
    \E inj \in InjectedOnWrite, v \in BOOLEAN :
        Call(<<"fn", "set_background_thread", v>>, set_background_thread(t, v, inj))

BackgroundThreadGet(t) ==
    \E inj \in Injected, dbg \in BOOLEAN :
        Call(<<"BackgroundThread", "get">>, BackgroundThread_get(t, inj, dbg))

BackgroundThreadSet(t) ==
    \E inj \in InjectedOnWrite, v \in BOOLEAN :
        Call(<<"BackgroundThread", "set", v>>, BackgroundThread_set(t, v, inj))

MaxBackgroundThreadsFn(t) ==
    \E inj \in Injected, dbg \in BOOLEAN :
        Call(<<"fn", "max_background_threads">>,
             max_background_threads(t, inj, dbg))

SetMaxBackgroundThreadsFn(t) ==
    \E inj \in InjectedOnWrite, v \in 0..MaxBgArg :
        Call(<<"fn", "set_max_background_threads", v>>,
             set_max_background_threads(t, v, inj))

MaxBackgroundThreadsGet(t) ==
    \E inj \in Injected, dbg \in BOOLEAN :
        Call(<<"MaxBackgroundThreads", "get">>,
             MaxBackgroundThreads_get(t, inj, dbg))

MaxBackgroundThreadsSet(t) ==
    \E inj \in InjectedOnWrite, v \in 0..MaxBgArg :
        Call(<<"MaxBackgroundThreads", "set", v>>,
             MaxBackgroundThreads_set(t, v, inj))

StatsGet(t, k) ==
    \E inj \in Injected, dbg \in BOOLEAN :
        Call(<<k, "get">>, stats_get(k, t, inj, dbg))

\* The returned ThreadLocal is kept by the calling thread.
ThreadAllocatedGet(t) ==
    \E inj \in Injected, dbg \in BOOLEAN :
        \E o \in {thread_Allocated_get(t, inj, dbg)} :
            /\ alloc' = o.st
            /\ ret' = Returned(<<"thread::Allocated", "get">>, t, o)
            /\ held' = IF o.res.kind = "Ok"
                       THEN [held EXCEPT ![t] = @ \cup
                               {[tl |-> o.res.val, by |-> t, of |-> "thread::Allocated"]}]
                       ELSE held
            /\ UNCHANGED <<blocks, tcount, handles, copies>>

ThreadDeallocatedGet(t) ==
    \E inj \in Injected, dbg \in BOOLEAN :
        \E o \in {thread_Deallocated_get(t, inj, dbg)} :
            /\ alloc' = o.st
            /\ ret' = Returned(<<"thread::Deallocated", "get">>, t, o)
            /\ held' = IF o.res.kind = "Ok"
                       THEN [held EXCEPT ![t] = @ \cup
                               {[tl |-> o.res.val, by |-> t, of |-> "thread::Deallocated"]}]
                       ELSE held
            /\ UNCHANGED <<blocks, tcount, handles, copies>>

\* A thread dereferences a ThreadLocal it holds.
ThreadLocalGet(t) ==
    \E h \in held[t] :
        /\ ret' = Stepped(<<"ThreadLocal", "get", h.of, h.by>>, t,
                          ThreadLocal_get(h.tl))
        /\ UNCHANGED <<alloc, blocks, tcount, handles, copies, held>>

\* A thread hands a value it holds to another thread (a channel, a spawned
\* closure); the compiler accepts it for the types that are Send.  Copies of
\* an accessor are all the same handle, so handing one over changes nothing
\* but who may use it; a ThreadLocal would arrive as the same pointer.
Send(t, u) ==
    /\ t # u
    /\ \/ /\ IsSend("Accessor")
          /\ held' = held
       \/ /\ IsSend("ThreadLocal")
          /\ \E h \in held[t] : held' = [held EXCEPT ![u] = @ \cup {h}]
    /\ ret' = Stepped(<<"send">>, AnyThread, Unit)
    /\ UNCHANGED <<alloc, blocks, tcount, handles, copies>>

\* The process allocates a block of n megabytes on thread t ...
Alloc(t, n) ==
    /\ blocks[t] = 0
    /\ tcount[t].allocated + n <= MaxCount
    /\ blocks' = [blocks EXCEPT ![t] = n]
    /\ tcount' = [tcount EXCEPT ![t].allocated = @ + n]
    /\ ret' = Stepped(<<"process", "alloc">>, t, Unit)
    /\ UNCHANGED <<alloc, handles, copies, held>>

\* ... and thread t frees the block it holds.
Free(t) ==
    /\ blocks[t] # 0
    /\ blocks' = [blocks EXCEPT ![t] = 0]
    /\ tcount' = [tcount EXCEPT ![t].deallocated = @ + blocks[t]]
    /\ ret' = Stepped(<<"process", "free">>, t, Unit)
    /\ UNCHANGED <<alloc, handles, copies, held>>

(***************************************************************************)
(* Spec: every operation of the layer, on a process whose heap is at rest. *)
(***************************************************************************)
Quiet == UNCHANGED <<adv, scen, lastSet>>

Next ==
    \/ \E k \in Kinds : New(k) /\ Quiet
    \/ \E t \in Threads : EpochFn(t) /\ Quiet
    \/ \E t \in Threads : EpochAdvance(t) /\ Quiet
    \/ \E t \in Threads : BackgroundThreadFn(t) /\ Quiet
    \/ \E t \in Threads : SetBackgroundThreadFn(t) /\ Quiet
    \/ \E t \in Threads : BackgroundThreadGet(t) /\ Quiet
    \/ \E t \in Threads : BackgroundThreadSet(t) /\ Quiet
    \/ \E t \in Threads : MaxBackgroundThreadsFn(t) /\ Quiet
    \/ \E t \in Threads : SetMaxBackgroundThreadsFn(t) /\ Quiet
    \/ \E t \in Threads : MaxBackgroundThreadsGet(t) /\ Quiet
    \/ \E t \in Threads : MaxBackgroundThreadsSet(t) /\ Quiet
    \/ \E t \in Threads, k \in StatsKinds : StatsGet(t, k) /\ Quiet
    \/ \E t \in Threads : ThreadAllocatedGet(t) /\ Quiet
    \/ \E t \in Threads : ThreadDeallocatedGet(t) /\ Quiet
    \/ \E t \in Threads : ThreadLocalGet(t) /\ Quiet
    \/ \E t, u \in Threads : Send(t, u) /\ Quiet

Spec == Init /\ [][Next]_vars

\* The operations that advance the epoch.
AdvanceOps == {<<"fn", "epoch">>, <<"Epoch", "advance">>}

\* C3: the epoch never decreases; a step changes it only when the step is a
\* successful advance, and a successful advance raises it by exactly one,
\* whichever constant it writes.
C3_EpochOnlyByAdvance ==
    /\ [][/\ alloc'.epoch >= alloc.epoch
          /\ alloc'.epoch # alloc.epoch =>
                ret'.op \in AdvanceOps /\ ret'.res.kind = "Ok"
          /\ (ret'.op \in AdvanceOps /\ ret'.res.kind = "Ok") =>
                alloc'.epoch = alloc.epoch + 1]_vars
    /\ [](\A t \in Threads, c \in 0..MaxWritten, dbg \in BOOLEAN :
            /\ get_set_mib(t, handles["Epoch"], "u64", c, 0, dbg).st.epoch
                  = alloc.epoch + 1
            /\ get_set(t, EPOCH, "u64", c, 0, dbg).st.epoch = alloc.epoch + 1)

\* C3 witness: a write to max_background_threads succeeded after two advances.
C3_Witness ==
    /\ alloc.epoch >= 2
    /\ ret.op = <<"MaxBackgroundThreads", "set", 0>>
    /\ ret.res.kind = "Ok"

\* C6: resolving a path again yields the handle already held; a by-handle read
\* and a by-name read of a key return the same result in the same state; and
\* after a successful write through either variant, the read through the
\* other variant returns the written value.
C6_HandlesInterchangeable ==
    /\ [](\A k \in Kinds, dbg \in BOOLEAN :
            NewOf(k, 0, dbg).res.kind = "Ok" /\ NewOf(k, 0, dbg).mib = handles[k])
    /\ [](\A t \in Threads, inj \in Injected, dbg \in BOOLEAN :
            /\ BackgroundThread_get(t, inj, dbg).res
                  = background_thread(t, inj, dbg).res
            /\ BackgroundThread_get(t, inj, dbg).st
                  = background_thread(t, inj, dbg).st
            /\ MaxBackgroundThreads_get(t, inj, dbg).res
                  = max_background_threads(t, inj, dbg).res
            /\ MaxBackgroundThreads_get(t, inj, dbg).st
                  = max_background_threads(t, inj, dbg).st)
    /\ [][\A v \in BOOLEAN :
            /\ (ret'.op = <<"BackgroundThread", "set", v>> /\ ret'.res.kind = "Ok")
                  => (background_thread("A", 0, TRUE).res)' = Ok(v)
            /\ (ret'.op = <<"fn", "set_background_thread", v>> /\ ret'.res.kind = "Ok")
                  => (BackgroundThread_get("A", 0, TRUE).res)' = Ok(v)]_vars
    /\ [][\A v \in 0..MaxBgArg :
            /\ (ret'.op = <<"MaxBackgroundThreads", "set", v>> /\ ret'.res.kind = "Ok")
                  => (max_background_threads("A", 0, TRUE).res)' = Ok(v)
            /\ (ret'.op = <<"fn", "set_max_background_threads", v>>
                    /\ ret'.res.kind = "Ok")
                  => (MaxBackgroundThreads_get("A", 0, TRUE).res)' = Ok(v)]_vars

\* C6 witness: a by-name write has changed the value the handle reads, and
\* the handle has been resolved again.
C6_Witness ==
    /\ alloc.background_thread
    /\ alloc.max_background_threads = 0
    /\ ret.op = <<"MaxBackgroundThreads", "new">>
    /\ ret.res.kind = "Ok"

\* C10: whenever a primitive has returned, its result is Ok exactly when the
\* foreign call's status was 0, and for a status c other than 0 the result is
\* the error carrying c.
C10_StatusSurfaced ==
    ret.status >= 0 =>
        /\ (ret.res.kind = "Ok") <=> (ret.status = 0)
        /\ ret.status # 0 => ret.res = Err(ret.status)

\* C10 witness: a refused write came back as the error carrying EINVAL.
C10_Witness ==
    /\ ret.status = EINVAL
    /\ ret.res = Err(EINVAL)

(***************************************************************************)
(* SpecThread: the thread-local counters while the threads allocate and    *)
(* free.                                                                   *)
(***************************************************************************)
NextThread ==
    \/ \E t \in Threads : ThreadAllocatedGet(t) /\ Quiet
    \/ \E t \in Threads : ThreadDeallocatedGet(t) /\ Quiet
    \/ \E t \in Threads : ThreadLocalGet(t) /\ Quiet
    \/ \E t, u \in Threads : Send(t, u) /\ Quiet
    \/ \E t \in Threads, n \in AllocSizes : Alloc(t, n) /\ Quiet
    \/ \E t \in Threads : Free(t) /\ Quiet

SpecThread == Init /\ [][NextThread]_vars

\* Every ThreadLocal some thread holds.
HeldAll == UNION {held[t] : t \in Threads}

\* C7: read through a pointer fetched earlier, an allocation by the thread
\* raises its allocated reading and leaves its deallocated reading as it was,
\* freeing the block raises the deallocated reading and leaves the allocated
\* reading as it was, and no step lowers either reading.
C7_CountersAreTotals ==
    [][\A h \in HeldAll :
          /\ ThreadLocal_get(h.tl)' >= ThreadLocal_get(h.tl)
          /\ (ret'.op = <<"process", "alloc">> /\ ret'.by = h.by) =>
                IF h.of = "thread::Allocated"
                THEN ThreadLocal_get(h.tl)' > ThreadLocal_get(h.tl)
                ELSE ThreadLocal_get(h.tl)' = ThreadLocal_get(h.tl)
          /\ (ret'.op = <<"process", "free">> /\ ret'.by = h.by) =>
                IF h.of = "thread::Deallocated"
                THEN ThreadLocal_get(h.tl)' > ThreadLocal_get(h.tl)
                ELSE ThreadLocal_get(h.tl)' = ThreadLocal_get(h.tl)]_vars

\* C7 witness: a thread that fetched both pointers has allocated and freed.
C7_Witness ==
    /\ ret.op = <<"process", "free">>
    /\ \E a, d \in held[ret.by] :
          /\ a.of = "thread::Allocated" /\ a.by = ret.by
          /\ d.of = "thread::Deallocated" /\ d.by = ret.by
          /\ ThreadLocal_get(a.tl) > 0
          /\ ThreadLocal_get(d.tl) > 0

\* C8: a ThreadLocal is held, and dereferenced, only by the thread that
\* obtained it, while the accessor it came from may be handed to any thread
\* and used there.
C8_ThreadAffinity ==
    /\ \A t \in Threads : \A h \in held[t] : h.by = t
    /\ ret.op[1] = "ThreadLocal" => ret.op[4] = ret.by
    /\ IsSend("Accessor")
    /\ \A t \in Threads, dbg \in BOOLEAN :
          /\ thread_Allocated_get(t, 0, dbg).res.kind = "Ok"
          /\ thread_Deallocated_get(t, 0, dbg).res.kind = "Ok"

\* C8 witness: values were handed between threads while both held pointers.
C8_Witness ==
    /\ ret.op = <<"send">>
    /\ \A t \in Threads : held[t] # {}

\* C9: a pointer obtained on thread t addresses t's own counter, pointers
\* obtained on different threads differ, and what another thread allocates
\* or frees does not change the value read through it.
C9_OwnCounter ==
    /\ [](\A h \in HeldAll :
            h.tl.ptr.thread = h.by
            /\ \A g \in HeldAll : g.by # h.by => g.tl # h.tl)
    /\ [](\A t \in Threads, dbg \in BOOLEAN :
            /\ thread_Allocated_get(t, 0, dbg).res.val.ptr.thread = t
            /\ thread_Deallocated_get(t, 0, dbg).res.val.ptr.thread = t)
    /\ [][\A h \in HeldAll :
            (ret'.op[1] = "process" /\ ret'.by # h.by) =>
                ThreadLocal_get(h.tl)' = ThreadLocal_get(h.tl)]_vars

\* C9 witness: thread A allocated while thread B held its allocated pointer.
C9_Witness ==
    /\ ret.op = <<"process", "alloc">>
    /\ ret.by = "A"
    /\ held["A"] # {}
    /\ \E h \in held["B"] : h.of = "thread::Allocated"

(***************************************************************************)
(* SpecEpoch: the threads advance the epoch, through the accessor and      *)
(* through the free function, and read statistics in between; an observer  *)
(* keeps each thread's last two successful advances.                       *)
(***************************************************************************)
\* Thread t's advance returned: a success becomes its last advance, and every
\* other thread has had an advance of another thread since its own last one.
ObserveAdvance(t) ==
    /\ adv' = IF ret'.res.kind = "Ok"
              THEN [u \in Threads |->
                      IF u = t
                      THEN [n |-> adv[t].n + 1, prev |-> adv[t].last,
                            last |-> ret'.res.val, between |-> adv[t].since,
                            since |-> FALSE]
                      ELSE [adv[u] EXCEPT !.since = TRUE]]
              ELSE adv
    /\ UNCHANGED <<scen, lastSet>>

NextEpoch ==
    \/ \E t \in Threads : EpochFn(t) /\ ObserveAdvance(t)
    \/ \E t \in Threads : EpochAdvance(t) /\ ObserveAdvance(t)
    \/ New("Epoch") /\ Quiet
    \/ \E t \in Threads, k \in StatsKinds : StatsGet(t, k) /\ Quiet

SpecEpoch == Init /\ [][NextEpoch]_vars

\* Number of successful advances so far, all threads together.
Advances == SumOver([t \in Threads |-> adv[t].n], Threads)

\* C1: when a thread's last two successful advances had no advance of another
\* thread between them, the second returned exactly one more than the first.
C1_ConsecutiveAdvances ==
    \A t \in Threads :
        (adv[t].n >= 2 /\ ~adv[t].between) => adv[t].last = adv[t].prev + 1

\* C1 witness: a thread has advanced twice in a row, undisturbed.
C1_Witness ==
    \E t \in Threads : adv[t].n >= 2 /\ ~adv[t].between /\ adv[t].last >= 2

\* C2: under any interleaving, the counter has grown by at least the number of
\* successful advances, a thread's successive results grow by at least one,
\* and a gap of more than one means another thread advanced in between.
C2_SerialisedAdvances ==
    /\ alloc.epoch >= Advances
    /\ \A t \in Threads :
          adv[t].n >= 2 =>
              /\ adv[t].last >= adv[t].prev + 1
              /\ (adv[t].last # adv[t].prev + 1 => adv[t].between)

\* C2 witness: three advances, one of another thread between a thread's two.
C2_Witness ==
    /\ Advances >= 3
    /\ \E t \in Threads :
          adv[t].n >= 2 /\ adv[t].between /\ adv[t].last > adv[t].prev + 1

(***************************************************************************)
(* SpecSet: the two read-write keys, set and read through both variants;   *)
(* an observer keeps, per key, the value of the last successful set.       *)
(***************************************************************************)
\* A set of the key returned.  A failed set is a set all the same: nothing is
\* remembered of either key after it, since stopping and starting the workers
\* may have failed half-way.
ObserveSet(key, via) ==
    /\ lastSet' = IF ret'.res.kind = "Ok"
                  THEN [lastSet EXCEPT ![key] =
                            [set |-> TRUE, v |-> ret'.op[3], via |-> via]]
                  ELSE [k \in DOMAIN lastSet |-> NotSet]
    /\ UNCHANGED <<adv, scen>>

NextSet ==
    \/ \E t \in Threads : BackgroundThreadFn(t) /\ Quiet
    \/ \E t \in Threads : SetBackgroundThreadFn(t) /\ ObserveSet("background_thread", "name")
    \/ \E t \in Threads : BackgroundThreadGet(t) /\ Quiet
    \/ \E t \in Threads : BackgroundThreadSet(t) /\ ObserveSet("background_thread", "handle")
    \/ \E t \in Threads : MaxBackgroundThreadsFn(t) /\ Quiet
    \/ \E t \in Threads :
          SetMaxBackgroundThreadsFn(t) /\ ObserveSet("max_background_threads", "name")
    \/ \E t \in Threads : MaxBackgroundThreadsGet(t) /\ Quiet
    \/ \E t \in Threads :
          MaxBackgroundThreadsSet(t) /\ ObserveSet("max_background_threads", "handle")

SpecSet == Init /\ [][NextSet]_vars

\* C5: after a successful set(v) of a read-write key and no set since, a get
\* returns v, through the accessor and through the by-name function alike,
\* whichever of the two the set went through.
C5_RoundTrip ==
    /\ lastSet["background_thread"].set =>
          /\ \A t \in Threads, dbg \in BOOLEAN :
                /\ BackgroundThread_get(t, 0, dbg).res
                      = Ok(lastSet["background_thread"].v)
                /\ background_thread(t, 0, dbg).res
                      = Ok(lastSet["background_thread"].v)
          /\ (ret.op \in {<<"BackgroundThread", "get">>, <<"fn", "background_thread">>}
                /\ ret.res.kind = "Ok")
                => ret.res.val = lastSet["background_thread"].v
    /\ lastSet["max_background_threads"].set =>
          /\ \A t \in Threads, dbg \in BOOLEAN :
                /\ MaxBackgroundThreads_get(t, 0, dbg).res
                      = Ok(lastSet["max_background_threads"].v)
                /\ max_background_threads(t, 0, dbg).res
                      = Ok(lastSet["max_background_threads"].v)
          /\ (ret.op \in {<<"MaxBackgroundThreads", "get">>,
                          <<"fn", "max_background_threads">>}
                /\ ret.res.kind = "Ok")
                => ret.res.val = lastSet["max_background_threads"].v

\* C5 witness: a value set by name was read back through the accessor, the
\* other key having been set through its accessor.
C5_Witness ==
    /\ lastSet["max_background_threads"].set
    /\ lastSet["max_background_threads"].via = "name"
    /\ lastSet["max_background_threads"].v = 0
    /\ lastSet["background_thread"].set
    /\ lastSet["background_thread"].via = "handle"
    /\ lastSet["background_thread"].v = TRUE
    /\ ret.op = <<"MaxBackgroundThreads", "get">>
    /\ ret.res = Ok(0)

(***************************************************************************)
(* SpecStats: the process allocates and frees, the epoch is advanced and   *)
(* the statistics are read; an observer follows one reading through an     *)
(* allocation and an advance to the next reading of the same statistic.    *)
(***************************************************************************)
\* A statistics read returned: after an allocation and an advance it closes
\* the scenario its statistic opened; otherwise it opens one, noting whether
\* the snapshot it read is still no more than what is live.
\* A closed scenario is forgotten at the next step.
Forget(sc) == IF sc.phase = "done" THEN NoScenario ELSE sc

ObserveRead(k) ==
    /\ scen' = IF ret'.res.kind # "Ok" THEN Forget(scen)
               ELSE IF scen.phase = "advanced" /\ scen.k = k
                    THEN [scen EXCEPT !.phase = "done"]
               ELSE [phase |-> "read", k |-> k, a |-> ret'.res.val,
                     fresh |-> alloc.cached <= LiveBytes]
    /\ UNCHANGED <<adv, lastSet>>

ObserveAlloc ==
    /\ scen' = IF scen.phase = "read" THEN [scen EXCEPT !.phase = "allocated"]
               ELSE Forget(scen)
    /\ UNCHANGED <<adv, lastSet>>

ObserveFree ==
    /\ scen' = [Forget(scen) EXCEPT !.fresh = FALSE]
    /\ UNCHANGED <<adv, lastSet>>

ObserveRefresh ==
    /\ scen' = IF ret'.res.kind = "Ok" /\ scen.phase = "allocated"
               THEN [scen EXCEPT !.phase = "advanced"]
               ELSE Forget(scen)
    /\ UNCHANGED <<adv, lastSet>>

NextStats ==
    \/ \E t \in Threads, n \in AllocSizes : Alloc(t, n) /\ ObserveAlloc
    \/ \E t \in Threads : Free(t) /\ ObserveFree
    \/ \E t \in Threads : EpochAdvance(t) /\ ObserveRefresh
    \/ \E t \in Threads, k \in StatsKinds : StatsGet(t, k) /\ ObserveRead(k)

SpecStats == Init /\ [][NextStats]_vars

\* The statistics whose documented example asserts the increase.
GrowingKinds == {"stats::Allocated", "stats::Active"}

\* The key each statistics accessor reads.
StatsKey(k) ==
    CASE k = "stats::Allocated" -> <<"stats", "allocated">>
      [] k = "stats::Active" -> <<"stats", "active">>
      [] k = "stats::Metadata" -> <<"stats", "metadata">>
      [] k = "stats::Resident" -> <<"stats", "resident">>
      [] k = "stats::Mapped" -> <<"stats", "mapped">>

StrContents ==
    { <<0>>, <<53, 0>>, <<53, 46, 49, 0>>, <<195, 169, 0>>, <<226, 130, 172, 0>>,
      <<255, 0>>, <<195, 0>>, <<53, 128, 0>>, <<237, 160, 128, 0>>, <<53, 0, 255, 0>> }

Memory(bytes) == [p \in {StrPtr(key) : key \in StrKeys} |-> bytes]

ValueGet(t, k) ==
    \E inj \in Injected, dbg \in BOOLEAN :
        Call(<<k, "get">>, value_get(k, t, inj, dbg))

ValueFn(t, k) ==
    \E inj \in Injected, dbg \in BOOLEAN :
        Call(<<"fn", k>>, value_fn(k, t, inj, dbg))

\* A string read while the memory behind the pointer holds `bytes`.
StrGet(t, k, bytes) ==
    \E inj \in Injected, dbg \in BOOLEAN :
        Call(<<k, "get", bytes>>, str_get(k, t, Memory(bytes), inj, dbg))

StrFn(t, k, bytes) ==
    \E inj \in Injected, dbg \in BOOLEAN :
        Call(<<"fn", k, bytes>>, str_fn(k, t, Memory(bytes), inj, dbg))

\* The strings of an ordinary build: a version-like text and the empty one.
PlainContents == { <<53, 46, 49, 0>>, <<0>> }

NextRead ==
    \/ \E k \in MoreKinds : New(k) /\ Quiet
    \/ \E t \in Threads, k \in ValueKinds : ValueGet(t, k) /\ Quiet
    \/ \E t \in Threads, k \in ValueKinds : ValueFn(t, k) /\ Quiet
    \/ \E t \in Threads, k \in StrKinds, bytes \in StrContents :
          StrGet(t, k, bytes) /\ Quiet
    \/ \E t \in Threads, k \in StrKinds, bytes \in StrContents :
          StrFn(t, k, bytes) /\ Quiet

SpecRead == Init /\ [][NextRead]_vars

\* C14: the two narenas accessors hold different handles, each the
\* resolution of its own path, and a successful read through one returns its
\* own key's slot, which is not the other's.
C14_NArenasDistinct ==
    /\ handles["arenas::NArenas"] = CtlMib(<<"arenas", "narenas">>)
    /\ handles["opt::NArenas"] = CtlMib(<<"opt", "narenas">>)
    /\ handles["arenas::NArenas"] # handles["opt::NArenas"]
    /\ (ret.op \in {<<"arenas::NArenas", "get">>, <<"fn", "arenas::NArenas">>}
        /\ ret.res.kind = "Ok")
          => ret.res.val = ArenasNArenas /\ ret.res.val # OptNArenas
    /\ (ret.op \in {<<"opt::NArenas", "get">>, <<"fn", "opt::NArenas">>}
        /\ ret.res.kind = "Ok")
          => ret.res.val = OptNArenas /\ ret.res.val # ArenasNArenas

\* C14 witness: arenas::NArenas::get returned the number of arenas.
C14_Witness ==
    /\ ret.op = <<"arenas::NArenas", "get">>
    /\ ret.res.kind = "Ok"
    /\ ret.res.val = ArenasNArenas

\* C15: a string read whose foreign status is nonzero returns the OS error
\* carrying that code; one whose status is zero returns the text up to the
\* first NUL when those bytes are well-formed UTF-8, the empty text included,
\* and the invalid-data error, which is not an OS error, when they are not.
C15_StringReadOutcomes ==
    Len(ret.op) = 3 =>
        LET text == UpToNul(ret.op[3])
        IN  /\ ret.status # 0 => ret.res = Err(ret.status)
            /\ (ret.status = 0 /\ text \in {<<>>, <<53>>, <<53, 46, 49>>, <<195, 169>>,
                                             <<226, 130, 172>>})
                  => ret.res = Ok(Str(text))
            /\ (ret.status = 0 /\ text \in {<<255>>, <<195>>, <<53, 128>>,
                                             <<237, 160, 128>>})
                  => ret.res = InvalidData /\ ret.res # Err(ret.res.code)

\* C15 witness: Version::get found bytes that are not text behind the pointer.
C15_Witness ==
    /\ Len(ret.op) = 3
    /\ ret.op[1] = "Version"
    /\ ret.op[3] = <<255, 0>>
    /\ ret.status = 0
    /\ ret.res = InvalidData

ResolveNames ==
    { EPOCH, VERSION, STATS_ALLOCATED, opt_NARENAS,
      CStr(<<"stats">>), CStr(<<"stats", "unknown">>) }

\* name_to_mib on a buffer of n words, in a debug or a release build.
Resolve(name, n) ==
    \E inj \in Injected, dbg \in BOOLEAN :
        LET r == name_to_mib(name, n, inj, dbg)
        IN  /\ ret' = [op |-> <<"fn", "name_to_mib", name.comps, n, dbg>>,
                       by |-> AnyThread, status |-> r.status, res |-> r.res,
                       mib |-> r.mib, len |-> r.len, calls |-> r.calls]
            /\ UNCHANGED <<alloc, blocks, tcount, handles, copies, held>>

NextResolve ==
    \/ \E k \in AllKinds : New(k) /\ Quiet
    \/ \E k \in AllKinds : NewAbsent(k) /\ Quiet
    \/ \E name \in ResolveNames, n \in 1..MaxMibLen : Resolve(name, n) /\ Quiet

SpecResolve == Init /\ [][NextResolve]_vars

\* C11: new() returns an accessor exactly when the resolve call returned 0; a
\* resolve call that fails, an unknown key included, comes back as the error
\* carrying its code; and every accessor in existence holds the complete
\* handle of its own path.
C11_NoUnresolvedAccessor ==
    /\ ret.op[2] = "new" =>
          /\ (ret.res.kind = "Ok") <=> (ret.status = 0)
          /\ ret.status # 0 => ret.res = Err(ret.status)
          /\ ret.res.kind = "Ok" => ret.res.val = CtlMib(PathOf(ret.op[1]).comps)
    /\ \A k \in AllKinds :
          /\ handles[k] = CtlMib(PathOf(k).comps)
          /\ Len(handles[k]) = Len(PathOf(k).comps)

\* C11 witness: the allocator did not know the path, and new() failed.
C11_Witness ==
    /\ ret.op = <<"stats::Mapped", "new">>
    /\ ret.res = Err(ENOENT)

(***************************************************************************)
(* SpecPrim: the primitives applied to handles and paths at every value    *)
(* type, the slot's own and the others.                                    *)
(***************************************************************************)
PrimKinds == {"Epoch", "BackgroundThread", "MaxBackgroundThreads", "opt::NArenas"}
PrimTypes == {"bool", "c_uint", "usize"}
\* None of these slots depends on the calling thread.
PrimThread == "A"
ValuesOf(ty) == IF ty = "bool" THEN BOOLEAN ELSE 0..MaxBgArg

\* A primitive call on thread t, recorded with the key and the type it used.
Prim(name, k, ty, o) ==
    \E out \in {o} :
        /\ out.st.epoch <= MaxEpoch
        /\ alloc' = out.st
        /\ ret' = Returned(<<"prim", name, k, ty>>, AnyThread, out)
        /\ UNCHANGED <<blocks, tcount, handles, copies, held>>

\* The same for a primitive that was handed the value v.
PrimWrite(name, k, ty, v, o) ==
    \E out \in {o} :
        /\ out.st.epoch <= MaxEpoch
        /\ alloc' = out.st
        /\ ret' = Returned(<<"prim", name, k, ty, v>>, AnyThread, out)
        /\ UNCHANGED <<blocks, tcount, handles, copies, held>>

PrimGetMib(k, ty) ==
    \E inj \in Injected, dbg \in BOOLEAN :
        Prim("get_mib", k, ty, get_mib(PrimThread, handles[k], ty, inj, dbg))

PrimGet(k, ty) ==
    \E inj \in Injected, dbg \in BOOLEAN :
        Prim("get", k, ty, get(PrimThread, PathOf(k), ty, inj, dbg))

PrimSetMib(k, ty) ==
    \E inj \in InjectedOnWrite, v \in ValuesOf(ty) :
        PrimWrite("set_mib", k, ty, v, set_mib(PrimThread, handles[k], ty, v, inj))

PrimSet(k, ty) ==
    \E inj \in InjectedOnWrite, v \in ValuesOf(ty) :
        PrimWrite("set", k, ty, v, set(PrimThread, PathOf(k), ty, v, inj))

PrimGetSetMib(k, ty) ==
    \E inj \in InjectedOnWrite, v \in ValuesOf(ty), dbg \in BOOLEAN :
        PrimWrite("get_set_mib", k, ty, v, get_set_mib(PrimThread, handles[k], ty, v, inj, dbg))

PrimGetSet(k, ty) ==
    \E inj \in InjectedOnWrite, v \in ValuesOf(ty), dbg \in BOOLEAN :
        PrimWrite("get_set", k, ty, v, get_set(PrimThread, PathOf(k), ty, v, inj, dbg))

NextPrim ==
    \/ \E k \in PrimKinds, ty \in PrimTypes : PrimGetMib(k, ty) /\ Quiet
    \/ \E k \in PrimKinds, ty \in PrimTypes : PrimGet(k, ty) /\ Quiet
    \/ \E k \in PrimKinds, ty \in PrimTypes : PrimSetMib(k, ty) /\ Quiet
    \/ \E k \in PrimKinds, ty \in PrimTypes : PrimSet(k, ty) /\ Quiet
    \/ \E k \in PrimKinds, ty \in PrimTypes : PrimGetSetMib(k, ty) /\ Quiet
    \/ \E k \in PrimKinds, ty \in PrimTypes : PrimGetSet(k, ty) /\ Quiet
    \/ \E t \in Threads : EpochAdvance(t) /\ Quiet
    \/ \E t \in Threads, k \in StatsKinds : StatsGet(t, k) /\ Quiet
    \/ \E t \in Threads : BackgroundThreadSet(t) /\ Quiet

SpecPrim == Init /\ [][NextPrim]_vars

\* C12: a call whose foreign status is nonzero returns the error carrying
\* that status, which holds no value; it does not panic; and a result that
\* holds a value comes only from a call whose status was zero, so the read
\* buffer is handed back only after the allocator filled it.
C12_FailureYieldsNoValue ==
    /\ ret.status > 0 =>
          /\ ret.res.kind = "Os"
          /\ ret.res.code = ret.status
          /\ ret.res.val = Unit
    /\ ret.res.kind \in {"Ok", "Panic"} => ret.status <= 0

\* C12 witness: a read of the 8-byte epoch slot that declared one byte.
C12_Witness ==
    /\ ret.op = <<"prim", "get_mib", "Epoch", "bool">>
    /\ ret.res = Err(EINVAL)

\* The slot behind an accessor type, as a read on the primitives' thread sees it.
SlotOf(a, k) == SlotValue(a, PrimThread, PathOf(k).comps)

NextFrame ==
    \/ BackgroundThreadFn(PrimThread) /\ Quiet
    \/ SetBackgroundThreadFn(PrimThread) /\ Quiet
    \/ BackgroundThreadGet(PrimThread) /\ Quiet
    \/ BackgroundThreadSet(PrimThread) /\ Quiet
    \/ MaxBackgroundThreadsFn(PrimThread) /\ Quiet
    \/ SetMaxBackgroundThreadsFn(PrimThread) /\ Quiet
    \/ MaxBackgroundThreadsGet(PrimThread) /\ Quiet
    \/ MaxBackgroundThreadsSet(PrimThread) /\ Quiet
    \/ \E k \in StatsKinds : StatsGet(PrimThread, k) /\ Quiet
    \/ ThreadAllocatedGet(PrimThread) /\ Quiet
    \/ ThreadDeallocatedGet(PrimThread) /\ Quiet
    \/ ThreadLocalGet(PrimThread) /\ Quiet
    \/ \E k \in ValueKinds : ValueGet(PrimThread, k) /\ Quiet
    \/ \E k \in ValueKinds : ValueFn(PrimThread, k) /\ Quiet
    \/ \E k \in StrKinds, bytes \in PlainContents : StrGet(PrimThread, k, bytes) /\ Quiet
    \/ \E k \in StrKinds, bytes \in PlainContents : StrFn(PrimThread, k, bytes) /\ Quiet

SpecFrame == Init /\ [][NextFrame]_vars

\* The operations that read and the operations that write.
GetOps(op) ==
    \/ op[2] = "get"
    \/ op[1] = "fn" /\ op[2] \notin {"epoch", "set_background_thread",
                                     "set_max_background_threads", "name_to_mib"}
SetOps(op) ==
    op[2] \in {"set", "set_background_thread", "set_max_background_threads"}
SetsBackgroundThread(op) ==
    op[1] = "BackgroundThread" \/ op[2] = "set_background_thread"

NextCalls ==
    \/ \E k \in AllKinds : New(k) /\ Quiet
    \/ EpochFn(PrimThread) /\ Quiet
    \/ EpochAdvance(PrimThread) /\ Quiet
    \/ BackgroundThreadFn(PrimThread) /\ Quiet
    \/ SetBackgroundThreadFn(PrimThread) /\ Quiet
    \/ BackgroundThreadGet(PrimThread) /\ Quiet
    \/ BackgroundThreadSet(PrimThread) /\ Quiet
    \/ \E k \in StatsKinds : StatsGet(PrimThread, k) /\ Quiet
    \/ ThreadAllocatedGet(PrimThread) /\ Quiet
    \/ ThreadLocalGet(PrimThread) /\ Quiet
    \/ \E k \in ValueKinds : ValueGet(PrimThread, k) /\ Quiet
    \/ \E k \in ValueKinds : ValueFn(PrimThread, k) /\ Quiet
    \/ \E k \in StrKinds, bytes \in PlainContents : StrGet(PrimThread, k, bytes) /\ Quiet
    \/ \E k \in StrKinds, bytes \in PlainContents : StrFn(PrimThread, k, bytes) /\ Quiet

SpecCalls == Init /\ [][NextCalls]_vars

\* The path a function passes to the by-name call.
FnPath(fn) ==
    CASE fn = "epoch" -> EPOCH
      [] fn \in {"background_thread", "set_background_thread"} -> BACKGROUND_THREAD
      [] fn \in {"max_background_threads", "set_max_background_threads"} ->
            MAX_BACKGROUND_THREADS
      [] OTHER -> PathOf(fn)

\* C20: new() makes exactly one resolve call, for its own path; every get,
\* set and advance of an accessor makes exactly one by-handle call, with the
\* handle new() resolved, and no resolve call, whether it succeeds or fails;
\* every function makes exactly one by-name call, passing its path; and
\* reading through a ThreadLocal makes no foreign call.
C20_OneCallNoRetry ==
    /\ ret.op[2] = "new" => ret.calls = <<NameToMib(PathOf(ret.op[1]))>>
    /\ (ret.op[1] \in AllKinds /\ ret.op[2] \in {"get", "set", "advance"}) =>
          /\ Len(ret.calls) = 1
          /\ ret.calls[1].fn = "mallctlbymib"
          /\ ret.calls[1].to = handles[ret.op[1]]
          /\ ret.calls[1].to = CtlMib(PathOf(ret.op[1]).comps)
    /\ ret.op[1] = "fn" =>
          /\ Len(ret.calls) = 1
          /\ ret.calls[1].fn = "mallctl"
          /\ ret.calls[1].to = FnPath(ret.op[2]).comps
    /\ ret.op[1] = "ThreadLocal" => ret.calls = <<>>

\* C20 witness: Version::get failed, after one by-handle call.
C20_Witness ==
    /\ ret.op[1] = "Version"
    /\ ret.op[2] = "get"
    /\ ret.res = Err(EAGAIN)
    /\ ret.calls = <<ByMib(<<0>>, Request(TRUE, Uninit, 8, FALSE, Uninit, 0))>>

\* The boolean keys' accessors and functions.
BoolOps(op) ==
    \/ op[1] \in {"BackgroundThread", "opt::Abort", "opt::Zero", "opt::Tcache"}
    \/ op[1] = "fn" /\ op[2] \in {"background_thread", "set_background_thread",
                                   "opt::Abort", "opt::Zero", "opt::Tcache"}

\* The key an operation addresses.
KeyOfOp(op) == IF op[1] = "fn" THEN FnPath(op[2]).comps ELSE PathOf(op[1]).comps

\* C19: a get of a boolean key declares a read buffer of one byte and, when
\* it succeeds, returns true if the slot's byte is 1 and false if it is 0,
\* the slot holding no other byte; a set of a boolean key hands over exactly
\* one byte, 1 for true and 0 for false, and declares no read buffer.
C19_BoolIsOneByte ==
    /\ SizeOf("bool") = 1
    /\ (BoolOps(ret.op) /\ GetOps(ret.op)) =>
          /\ ret.calls[1].oldlen = 1
          /\ ret.calls[1].newlen = 0
          /\ ret.res.kind = "Ok" =>
                /\ SlotValue(alloc, PrimThread, KeyOfOp(ret.op)) \in {0, 1}
                /\ ret.res.val \in BOOLEAN
                /\ ret.res.val <=> (SlotValue(alloc, PrimThread, KeyOfOp(ret.op)) = 1)
    /\ (BoolOps(ret.op) /\ SetOps(ret.op)) =>
          /\ ret.calls[1].newlen = 1
          /\ ret.calls[1].oldlen = 0
          /\ ret.calls[1].new = IF ret.op[3] THEN 1 ELSE 0

\* C19 witness: opt::Tcache::get read the byte 1 and returned true.
C19_Witness ==
    /\ ret.op = <<"opt::Tcache", "get">>
    /\ ret.calls[1].oldlen = 1
    /\ ret.res = Ok(TRUE)
    /\ SlotValue(alloc, PrimThread, <<"opt", "tcache">>) = 1

TopLevelKinds == {"Epoch", "Version", "BackgroundThread", "MaxBackgroundThreads"}

\* C21: every accessor type's stored handle has as many words as its key path
\* has dotted components (1 for epoch, version, background_thread and
\* max_background_threads, 2 for all the others), a by-handle call passes
\* exactly that many words, and every path handed to a by-name or resolve
\* call ends with the null terminator.
C21_HandleLengthIsPathDepth ==
    /\ \A k \in AllKinds :
          /\ Len(handles[k]) = Len(PathOf(k).comps)
          /\ Len(handles[k]) = IF k \in TopLevelKinds THEN 1 ELSE 2
    /\ \A i \in 1..Len(ret.calls) :
          IF ret.calls[i].fn = "mallctlbymib"
          THEN ret.op[1] \in AllKinds =>
                  Len(ret.calls[i].to) = Len(PathOf(ret.op[1]).comps)
          ELSE ret.calls[i].nul

\* C21 witness: opt::Dss::new resolved its terminated two-component path
\* into a two-word handle.
C21_Witness ==
    /\ ret.op = <<"opt::Dss", "new">>
    /\ ret.res.kind = "Ok"
    /\ Len(ret.res.val) = 2
    /\ ret.calls[1].nul
    /\ Len(ret.calls[1].to) = 2

(***************************************************************************)
(* Copies of accessors.  Every accessor type derives Copy and Clone; its   *)
(* methods borrow the accessor (&self) and hand &self.0 to the primitives. *)
(***************************************************************************)
\* A copy of the array that took zeroes in place of the words.
Clone_Zeroed(self) == [i \in 1..Len(self) |-> 0]

\* #[derive(Copy, Clone)] on a struct of one [usize; N]: word for word.
Clone(self) == [i \in 1..Len(self) |-> self[i]]

\* The methods, on the accessor value `self` they are called on.
Epoch_advance_on(self, t, inj, dbg) == get_set_mib(t, self, "u64", 1, inj, dbg)
BackgroundThread_get_on(self, t, inj, dbg) == get_mib(t, self, "bool", inj, dbg)
BackgroundThread_set_on(self, t, v, inj) == set_mib(t, self, "bool", v, inj)
MaxBackgroundThreads_get_on(self, t, inj, dbg) == get_mib(t, self, "usize", inj, dbg)
MaxBackgroundThreads_set_on(self, t, v, inj) == set_mib(t, self, "usize", v, inj)

CopyKinds == {"Epoch", "BackgroundThread", "MaxBackgroundThreads"}

\* The accessors of kind k that exist: the stored one and the copies taken.
Accessors(k) == {handles[k]} \cup ({copies[u][k] : u \in Threads} \ {<<>>})

\* Thread t takes a copy of an accessor of kind k, the original or a copy
\* another thread made, replacing the copy it had.
Copy(t, k) ==
    \E self \in Accessors(k) :
        /\ copies' = [copies EXCEPT ![t][k] = Clone(self)]
        /\ ret' = Stepped(<<"clone", k, t>>, t, Unit)
        /\ UNCHANGED <<alloc, blocks, tcount, handles, held>>

\* Thread t calls a method on its copy.
CopyEpochAdvance(t) ==
    /\ copies[t]["Epoch"] # <<>>
    /\ alloc.epoch < MaxEpoch
    /\ \E inj \in Injected, dbg \in BOOLEAN :
          Call(<<"copy", "Epoch", "advance", t>>,
               Epoch_advance_on(copies[t]["Epoch"], t, inj, dbg))

CopyBackgroundThreadGet(t) ==
    /\ copies[t]["BackgroundThread"] # <<>>
    /\ \E inj \in Injected, dbg \in BOOLEAN :
          Call(<<"copy", "BackgroundThread", "get", t>>,
               BackgroundThread_get_on(copies[t]["BackgroundThread"], t, inj, dbg))

CopyBackgroundThreadSet(t) ==
    /\ copies[t]["BackgroundThread"] # <<>>
    /\ \E inj \in InjectedOnWrite, v \in BOOLEAN :
          Call(<<"copy", "BackgroundThread", "set", t, v>>,
               BackgroundThread_set_on(copies[t]["BackgroundThread"], t, v, inj))

CopyMaxBackgroundThreadsGet(t) ==
    /\ copies[t]["MaxBackgroundThreads"] # <<>>
    /\ \E inj \in Injected, dbg \in BOOLEAN :
          Call(<<"copy", "MaxBackgroundThreads", "get", t>>,
               MaxBackgroundThreads_get_on(copies[t]["MaxBackgroundThreads"], t, inj, dbg))

CopyMaxBackgroundThreadsSet(t) ==
    /\ copies[t]["MaxBackgroundThreads"] # <<>>
    /\ \E inj \in InjectedOnWrite, v \in 0..MaxBgArg :
          Call(<<"copy", "MaxBackgroundThreads", "set", t, v>>,
               MaxBackgroundThreads_set_on(copies[t]["MaxBackgroundThreads"], t, v, inj))

NextHandle ==
    \/ \E k \in CopyKinds : New(k) /\ Quiet
    \/ \E t \in Threads, k \in CopyKinds : Copy(t, k) /\ Quiet
    \/ EpochAdvance(PrimThread) /\ Quiet
    \/ BackgroundThreadGet(PrimThread) /\ Quiet
    \/ BackgroundThreadSet(PrimThread) /\ Quiet
    \/ MaxBackgroundThreadsGet(PrimThread) /\ Quiet
    \/ MaxBackgroundThreadsSet(PrimThread) /\ Quiet
    \/ \E t \in Threads : CopyEpochAdvance(t) /\ Quiet
    \/ \E t \in Threads : CopyBackgroundThreadGet(t) /\ Quiet
    \/ \E t \in Threads : CopyBackgroundThreadSet(t) /\ Quiet
    \/ \E t \in Threads : CopyMaxBackgroundThreadsGet(t) /\ Quiet
    \/ \E t \in Threads : CopyMaxBackgroundThreadsSet(t) /\ Quiet

SpecHandle == Init /\ [][NextHandle]_vars

====
